---- MODULE Spec2Model ----
(***************************************************************************)
(* Position ledger (core/position_manager.py, core/positions.py), exit     *)
(* trigger evaluation and streaming statistics (backtesting/backtester.py) *)
(* driven bar by bar by BaseStrategy.update (core/base_strategy.py).       *)
(*                                                                         *)
(* Python floats are modelled as exact rationals <<n, d>> in lowest terms  *)
(* with d > 0; float('nan') is the pair <<0, 0>>.  None is the empty       *)
(* tuple.  Position objects live in a heap (pm.positions) so that a local  *)
(* reference held by the backtester stays valid after the ledger drops     *)
(* its own reference; pm.position is an index into the heap, 0 for None.   *)
(* Order ids (uuid4) are not modelled.  datetime.now() is read as a       *)
(* logical clock in seconds that advances with every recorded fill.       *)
(***************************************************************************)
EXTENDS Integers, Sequences, FiniteSets, TLC

VARIABLES pm, bt, candle, phase, bars, calls, op, stop

vars == <<pm, bt, candle, phase, bars, calls, op, stop>>

----------------------------------------------------------------------------
(* Bounds of the exploration *)

MaxBars == 3
MaxCalls == 2
event_history_size == 2

----------------------------------------------------------------------------
(* Exact rational arithmetic standing for float arithmetic *)

Abs(x) == IF x < 0 THEN -x ELSE x

RECURSIVE GCD(_, _)
GCD(a, b) == IF b = 0 THEN a ELSE GCD(b, a % b)

Rat(n, d) ==
    LET g == GCD(Abs(n), Abs(d))
        s == IF d < 0 THEN -1 ELSE 1
    IN  <<(s * n) \div g, (s * d) \div g>>

R(i) == <<i, 1>>
Zero == R(0)
One == R(1)
None == <<>>
NaN == <<0, 0>>

RAdd(x, y) == Rat(x[1] * y[2] + y[1] * x[2], x[2] * y[2])
RSub(x, y) == Rat(x[1] * y[2] - y[1] * x[2], x[2] * y[2])
RMul(x, y) == Rat(x[1] * y[1], x[2] * y[2])
RDiv(x, y) == Rat(x[1] * y[2], x[2] * y[1])
RNeg(x) == <<-x[1], x[2]>>
RAbs(x) == <<Abs(x[1]), x[2]>>
RLt(x, y) == x[1] * y[2] < y[1] * x[2]
RLe(x, y) == x[1] * y[2] <= y[1] * x[2]
\* Python's min(a, b) / max(a, b): the first argument unless the second is
\* strictly smaller / larger
RMin(a, b) == IF RLt(b, a) THEN b ELSE a
RMax(a, b) == IF RLt(a, b) THEN b ELSE a
\* truth value of an Optional[float] argument: None and 0 are false
Truthy(x) == x # None /\ x # Zero

----------------------------------------------------------------------------
(* core/positions.py *)

\* LET with the bound value computed once
Let(e, F(_)) == CHOOSE r \in {F(v) : v \in {e}} : TRUE

\* the reading of datetime.now() that stamps a new Order: the clock only
\* moves forward, and every Order the ledger builds is followed by one
\* recorded event, so the number of events recorded so far is a reading
\* that grows from one Order to the next (one second per fill)
datetime_now(self) == self.event_counter

Order(price, quantity, fees, timestamp) ==
    [price |-> price, quantity |-> quantity, fees |-> fees,
     timestamp |-> timestamp]

Position(side, tp, sl) ==
    [side |-> side, qty |-> Zero, avg_price |-> Zero, total_fees |-> Zero,
     state |-> "OPEN", entry_orders |-> <<>>, exit_orders |-> <<>>,
     realized_pnl |-> Zero, tp |-> tp, sl |-> sl,
     reached_tp |-> FALSE, reached_sl |-> FALSE]

\* apply_fill, is_entry branch: weighted average
entry_fill(self, order) ==
    Let(RAdd(RMul(self.avg_price, self.qty),
             RMul(order.price, order.quantity)), LAMBDA total_cost :
    Let(RAdd(self.qty, order.quantity), LAMBDA q :
        [self EXCEPT !.qty = q,
                     !.avg_price = IF q # Zero THEN RDiv(total_cost, q)
                                   ELSE Zero,
                     !.entry_orders = Append(@, order)]))

\* a variant of exit_fill that clears the cost basis when the Position is
\* emptied, as the entry branch does for an empty quantity
exit_fill_clears_avg(self, order) ==
    Let(RMin(self.qty, order.quantity), LAMBDA closed_qty :
    Let(RMul(RSub(order.price, self.avg_price), closed_qty), LAMBDA raw :
    Let(IF self.side = "SHORT" THEN RNeg(raw) ELSE raw, LAMBDA pnl :
    Let(RSub(self.qty, closed_qty), LAMBDA q :
    Let([self EXCEPT !.realized_pnl = RAdd(@, RSub(pnl, order.fees)),
                     !.qty = q,
                     !.exit_orders = Append(@, order)], LAMBDA p1 :
        IF RLe(q, Zero)
        THEN [p1 EXCEPT !.state = "CLOSED", !.qty = Zero,
                        !.avg_price = Zero]
        ELSE p1)))))

\* a variant of exit_fill that leaves the state OPEN when the quantity is
\* used up
exit_fill_stays_open(self, order) ==
    Let(RMin(self.qty, order.quantity), LAMBDA closed_qty :
    Let(RMul(RSub(order.price, self.avg_price), closed_qty), LAMBDA raw :
    Let(IF self.side = "SHORT" THEN RNeg(raw) ELSE raw, LAMBDA pnl :
    Let(RSub(self.qty, closed_qty), LAMBDA q :
    Let([self EXCEPT !.realized_pnl = RAdd(@, RSub(pnl, order.fees)),
                     !.qty = q,
                     !.exit_orders = Append(@, order)], LAMBDA p1 :
        IF RLe(q, Zero) THEN [p1 EXCEPT !.qty = Zero] ELSE p1)))))

\* apply_fill, exit branch: realized pnl of the closed quantity
exit_fill(self, order) ==
    Let(RMin(self.qty, order.quantity), LAMBDA closed_qty :
    Let(RMul(RSub(order.price, self.avg_price), closed_qty), LAMBDA raw :
    Let(IF self.side = "SHORT" THEN RNeg(raw) ELSE raw, LAMBDA pnl :
    Let(RSub(self.qty, closed_qty), LAMBDA q :
    Let([self EXCEPT !.realized_pnl = RAdd(@, RSub(pnl, order.fees)),
                     !.qty = q,
                     !.exit_orders = Append(@, order)], LAMBDA p1 :
        IF RLe(q, Zero)
        THEN [p1 EXCEPT !.state = "CLOSED", !.qty = Zero]
        ELSE p1)))))

apply_fill(self, order, is_entry) ==
    Let(order, LAMBDA o :
    Let([self EXCEPT !.total_fees = RAdd(@, o.fees)], LAMBDA p0 :
        IF is_entry THEN entry_fill(p0, o) ELSE exit_fill(p0, o)))

compute_upnl(self, market_price) ==
    IF self.qty = Zero THEN Zero
    ELSE Let(RMul(RSub(market_price, self.avg_price), self.qty),
             LAMBDA unreal :
             IF self.side = "SHORT" THEN RNeg(unreal) ELSE unreal)

----------------------------------------------------------------------------
(* core/position_manager.py *)

BasePositionManager ==
    [positions |-> <<>>, position |-> 0, position_count |-> 0,
     total_fees |-> Zero, total_longs |-> 0, total_shorts |-> 0,
     all_events |-> <<>>, recent_events |-> <<>>, event_counter |-> 0]

\* the Position object self.position refers to (self.position is not None)
Pos(self) == self.positions[self.position]

SetPos(self, p) == [self EXCEPT !.positions[self.position] = p]

\* a variant of create_event that numbers the event with the counter as it
\* stands and does not advance it
create_event_same_id(self, event_type, c, quantity) ==
    Let(self.event_counter, LAMBDA id :
        [pm |-> [self EXCEPT !.event_counter = id],
         event |-> [id |-> id, timestamp |-> c.timestamp,
                    event_type |-> event_type, price |-> R(c.close),
                    quantity |-> quantity,
                    position_info |->
                        IF self.position # 0
                        THEN <<[side |-> Pos(self).side,
                                quantity |-> Pos(self).qty,
                                avg_price |-> Pos(self).avg_price,
                                unrealized_pnl |->
                                    compute_upnl(Pos(self), R(c.close))]>>
                        ELSE <<>>]])

\* returns the manager with the counter advanced, and the event
create_event(self, event_type, c, quantity) ==
    Let(self.event_counter + 1, LAMBDA id :
        [pm |-> [self EXCEPT !.event_counter = id],
         event |-> [id |-> id, timestamp |-> c.timestamp,
                    event_type |-> event_type, price |-> R(c.close),
                    quantity |-> quantity,
                    position_info |->
                        IF self.position # 0
                        THEN <<[side |-> Pos(self).side,
                                quantity |-> Pos(self).qty,
                                avg_price |-> Pos(self).avg_price,
                                unrealized_pnl |->
                                    compute_upnl(Pos(self), R(c.close))]>>
                        ELSE <<>>]])

\* a variant of DequeAppend that drops the new element when the window is
\* full
DequeAppend_keeps_oldest(q, e) ==
    IF event_history_size = 0 THEN <<>>
    ELSE IF Len(q) >= event_history_size THEN q
    ELSE Append(q, e)

\* deque(maxlen = event_history_size).append
DequeAppend(q, e) ==
    IF event_history_size = 0 THEN <<>>
    ELSE IF Len(q) >= event_history_size THEN Append(Tail(q), e)
    ELSE Append(q, e)

record_event(self, event) ==
    [self EXCEPT !.all_events = Append(@, event),
                 !.recent_events = DequeAppend(@, event)]

\* event = self._create_event(...); self._record_event(event)
emit(self, event_type, c, quantity) ==
    Let(self, LAMBDA s :
    Let(create_event(s, event_type, c, quantity), LAMBDA ce :
        record_event(ce.pm, ce.event)))

\* a variant of Legs that stores the fraction itself as the leg's quantity
Legs_unconverted(l, quantity) ==
    [i \in DOMAIN l |-> [price |-> l[i].price, qty |-> l[i].percent]]

\* tp / sl fractions converted into quantities at open time
Legs(l, quantity) ==
    [i \in DOMAIN l |-> [price |-> l[i].price,
                         qty |-> RMul(l[i].percent, quantity)]]

\* long(), no Position open: create one, convert the legs, record open_long
open_long(s1, c, quantity, order, tp, sl) ==
    Let(apply_fill(Position("LONG", Legs(tp, quantity), Legs(sl, quantity)),
                   order, TRUE), LAMBDA pos :
        emit([s1 EXCEPT !.positions = Append(@, pos),
                        !.position = Len(s1.positions) + 1,
                        !.total_longs = @ + 1,
                        !.position_count = @ + 1],
             "open_long", c, quantity))

\* short(), no Position open
open_short(s1, c, quantity, order, tp, sl) ==
    Let(apply_fill(Position("SHORT", Legs(tp, quantity), Legs(sl, quantity)),
                   order, TRUE), LAMBDA pos :
        emit([s1 EXCEPT !.positions = Append(@, pos),
                        !.position = Len(s1.positions) + 1,
                        !.total_shorts = @ + 1,
                        !.position_count = @ + 1],
             "open_short", c, quantity))

\* a variant of long() without the opposite-side guard: the call opens a
\* LONG Position over the open SHORT
long_over_short(self, c, value, qty, tp, sl, fees) ==
    IF ~Truthy(value) /\ ~Truthy(qty) THEN self
    ELSE
    Let(IF Truthy(value) THEN RDiv(value, R(c.close)) ELSE qty,
        LAMBDA quantity :
    Let(Order(R(c.close), quantity, fees, datetime_now(self)),
        LAMBDA order :
    Let([self EXCEPT !.total_fees = RAdd(@, fees)], LAMBDA s1 :
        IF s1.position # 0 /\ Pos(s1).side = "LONG"
        THEN emit(SetPos(s1, apply_fill(Pos(s1), order, TRUE)),
                  "increase_long", c, quantity)
        ELSE open_long(s1, c, quantity, order, tp, sl))))

\* a variant of long() that counts an increase as one more Position
long_counts_increase(self, c, value, qty, tp, sl, fees) ==
    IF ~Truthy(value) /\ ~Truthy(qty) THEN self
    ELSE
    Let(IF Truthy(value) THEN RDiv(value, R(c.close)) ELSE qty,
        LAMBDA quantity :
    Let(Order(R(c.close), quantity, fees, datetime_now(self)),
        LAMBDA order :
    Let([self EXCEPT !.total_fees = RAdd(@, fees)], LAMBDA s1 :
        IF s1.position # 0
        THEN IF Pos(s1).side = "LONG"
             THEN emit([SetPos(s1, apply_fill(Pos(s1), order, TRUE))
                           EXCEPT !.total_longs = @ + 1,
                                  !.position_count = @ + 1],
                       "increase_long", c, quantity)
             ELSE s1
        ELSE open_long(s1, c, quantity, order, tp, sl))))

long(self, c, value, qty, tp, sl, fees) ==
    IF ~Truthy(value) /\ ~Truthy(qty) THEN self
    ELSE
    Let(IF Truthy(value) THEN RDiv(value, R(c.close)) ELSE qty,
        LAMBDA quantity :
    Let(Order(R(c.close), quantity, fees, datetime_now(self)),
        LAMBDA order :
    Let([self EXCEPT !.total_fees = RAdd(@, fees)], LAMBDA s1 :
        IF s1.position # 0
        THEN IF Pos(s1).side = "LONG"
             THEN emit(SetPos(s1, apply_fill(Pos(s1), order, TRUE)),
                       "increase_long", c, quantity)
             ELSE s1
        ELSE open_long(s1, c, quantity, order, tp, sl))))

short(self, c, value, qty, tp, sl, fees) ==
    IF ~Truthy(value) /\ ~Truthy(qty) THEN self
    ELSE
    Let(IF Truthy(value) THEN RDiv(value, R(c.close)) ELSE qty,
        LAMBDA quantity :
    Let(Order(R(c.close), quantity, fees, datetime_now(self)),
        LAMBDA order :
    Let([self EXCEPT !.total_fees = RAdd(@, fees)], LAMBDA s1 :
        IF s1.position # 0
        THEN IF Pos(s1).side = "SHORT"
             THEN emit(SetPos(s1, apply_fill(Pos(s1), order, TRUE)),
                       "increase_short", c, quantity)
             ELSE s1
        ELSE open_short(s1, c, quantity, order, tp, sl))))

\* the quantity close() resolves from its arguments
close_qty(self, qty, percentage) ==
    IF qty # None THEN RMin(qty, Pos(self).qty)
    ELSE IF percentage # None
         THEN RMul(Pos(self).qty, RMin(RMax(percentage, Zero), One))
         ELSE Pos(self).qty

\* a variant of close() without the test of the resolved quantity
close_unchecked(self, c, qty, percentage) ==
    Let(self, LAMBDA s0 :
        IF s0.position = 0 THEN s0
        ELSE IF Pos(s0).qty = Zero THEN s0
        ELSE
        Let(close_qty(s0, qty, percentage), LAMBDA cq :
            Let(SetPos(s0, apply_fill(Pos(s0),
                                      Order(R(c.close), cq, Zero,
                                            datetime_now(s0)),
                                      FALSE)), LAMBDA s1 :
            Let(Pos(s1).qty = Zero, LAMBDA is_full_close :
            Let(emit(s1, IF is_full_close THEN "close_full"
                         ELSE "close_partial", c, cq), LAMBDA s2 :
                IF Pos(s2).qty = Zero THEN [s2 EXCEPT !.position = 0]
                ELSE s2)))))

\* a variant of close() that keeps the reference to the Position after a
\* full close
close_keeps_position(self, c, qty, percentage) ==
    Let(self, LAMBDA s0 :
        IF s0.position = 0 THEN s0
        ELSE IF Pos(s0).qty = Zero THEN s0
        ELSE
        Let(close_qty(s0, qty, percentage), LAMBDA cq :
            IF RLe(cq, Zero) THEN s0
            ELSE
            Let(SetPos(s0, apply_fill(Pos(s0),
                                      Order(R(c.close), cq, Zero,
                                            datetime_now(s0)),
                                      FALSE)), LAMBDA s1 :
            Let(Pos(s1).qty = Zero, LAMBDA is_full_close :
                emit(s1, IF is_full_close THEN "close_full"
                         ELSE "close_partial", c, cq)))))

close(self, c, qty, percentage) ==
    Let(self, LAMBDA s0 :
        IF s0.position = 0 THEN s0
        ELSE IF Pos(s0).qty = Zero THEN s0
        ELSE
        Let(close_qty(s0, qty, percentage), LAMBDA cq :
            IF RLe(cq, Zero) THEN s0
            ELSE
            Let(SetPos(s0, apply_fill(Pos(s0),
                                      Order(R(c.close), cq, Zero,
                                            datetime_now(s0)),
                                      FALSE)), LAMBDA s1 :
            Let(Pos(s1).qty = Zero, LAMBDA is_full_close :
            Let(emit(s1, IF is_full_close THEN "close_full"
                         ELSE "close_partial", c, cq), LAMBDA s2 :
                IF Pos(s2).qty = Zero THEN [s2 EXCEPT !.position = 0]
                ELSE s2)))))

set_hit_take_profit(self) ==
    IF self.position = 0 THEN self
    ELSE SetPos(self, [Pos(self) EXCEPT !.reached_tp = TRUE])

set_hit_stop_loss(self) ==
    IF self.position = 0 THEN self
    ELSE SetPos(self, [Pos(self) EXCEPT !.reached_sl = TRUE])

\* self.recent_events.clear()
clear_recent_events(self) == [self EXCEPT !.recent_events = <<>>]

has_position(self) == self.position # 0 /\ Pos(self).qty # Zero

\* record_tp_hit / record_sl_hit: the event carries the leg's quantity as
\* tp_quantity / sl_quantity.  Neither BaseBacktester.update nor close()
\* calls them
record_tp_hit(self, c, tp_price, tp_qty) == emit(self, "tp_hit", c, tp_qty)

record_sl_hit(self, c, sl_price, sl_qty) == emit(self, "sl_hit", c, sl_qty)

----------------------------------------------------------------------------
(* backtesting/backtester.py *)

BaseBacktestStats ==
    [positions |-> 0, longs |-> 0, shorts |-> 0,
     exit_wins |-> 0, exit_losses |-> 0, exit_winrate |-> Zero,
     position_wins |-> 0, position_losses |-> 0, position_winrate |-> Zero,
     long_wins |-> 0, long_winrate |-> Zero,
     short_wins |-> 0, short_winrate |-> Zero,
     pnl |-> Zero, total_pnl |-> Zero, avg_position_pnl |-> Zero,
     gross_profit |-> Zero, gross_loss |-> Zero, profit_factor |-> Zero,
     avg_win |-> Zero, avg_loss |-> Zero, max_drawdown |-> Zero,
     max_win |-> Zero, max_loss |-> Zero, equity_curve |-> <<>>,
     max_win_streak |-> 0, max_loss_streak |-> 0,
     exposure_time |-> Zero, avg_position_duration |-> Zero,
     position_frquency |-> Zero,
     fees_paid |-> Zero, position_history |-> <<>>]

BaseBacktester ==
    [stats |-> BaseBacktestStats, w_streak |-> 0, l_streak |-> 0,
     peak_equity |-> Zero]

Max(a, b) == IF a < b THEN b ELSE a

\* list.pop(idx), idx counted from 1
Pop(l, idx) == SubSeq(l, 1, idx - 1) \o SubSeq(l, idx + 1, Len(l))

tp_triggered(p, c, price) ==
    \/ p.side = "LONG" /\ RLe(price, R(c.high))
    \/ p.side = "SHORT" /\ RLe(R(c.low), price)

sl_triggered(p, c, price) ==
    \/ p.side = "LONG" /\ RLe(R(c.low), price)
    \/ p.side = "SHORT" /\ RLe(price, R(c.high))

\* for idx, (tp_price, tp_qty) in enumerate(pos.tp): the list iterator
\* re-reads the length of the list it walks at every step, so a pop during
\* the walk shifts the following legs under the advancing index.
\* w is [pm, bt]; pos is the heap index of the local reference
RECURSIVE tp_loop(_, _, _, _)
tp_loop(w0, pos, c, idx) ==
    Let(w0, LAMBDA w :
    Let(w.pm.positions[pos], LAMBDA p :
        IF idx > Len(p.tp) THEN w
        ELSE IF tp_triggered(p, c, p.tp[idx].price)
        THEN Let(p.tp[idx], LAMBDA leg :
             Let([w.pm EXCEPT !.positions[pos].tp = Pop(@, idx)],
                 LAMBDA m1 :
             Let(close(set_hit_take_profit(m1), c, leg.qty, None),
                 LAMBDA m2 :
                 tp_loop([pm |-> m2,
                          bt |-> [w.bt EXCEPT
                                    !.stats.exit_wins = @ + 1,
                                    !.stats.position_history =
                                        Append(@, [type |-> "tp",
                                                   price |-> leg.price,
                                                   candle |-> c])]],
                         pos, c, idx + 1))))
        ELSE tp_loop(w, pos, c, idx + 1)))

RECURSIVE sl_loop(_, _, _, _)
sl_loop(w0, pos, c, idx) ==
    Let(w0, LAMBDA w :
    Let(w.pm.positions[pos], LAMBDA p :
        IF idx > Len(p.sl) THEN w
        ELSE IF sl_triggered(p, c, p.sl[idx].price)
        THEN Let(p.sl[idx], LAMBDA leg :
             Let([w.pm EXCEPT !.positions[pos].sl = Pop(@, idx)],
                 LAMBDA m1 :
             Let(close(set_hit_stop_loss(m1), c, leg.qty, None),
                 LAMBDA m2 :
                 sl_loop([pm |-> m2,
                          bt |-> [w.bt EXCEPT
                                    !.stats.exit_losses = @ + 1,
                                    !.stats.position_history =
                                        Append(@, [type |-> "sl",
                                                   price |-> leg.price,
                                                   candle |-> c])]],
                         pos, c, idx + 1))))
        ELSE sl_loop(w, pos, c, idx + 1)))

\* a variant of settle_classify that books a loss into gross_loss with the
\* wrong sign
settle_classify_loss_sign(b, p) ==
    IF RLt(Zero, p.realized_pnl)
    THEN [b EXCEPT !.stats.position_wins = @ + 1,
                   !.stats.gross_profit = RAdd(@, p.realized_pnl),
                   !.stats.max_win = RMax(@, p.realized_pnl),
                   !.w_streak = @ + 1,
                   !.l_streak = 0,
                   !.stats.long_wins = IF p.side = "LONG" THEN @ + 1 ELSE @,
                   !.stats.short_wins = IF p.side = "SHORT" THEN @ + 1 ELSE @]
    ELSE [b EXCEPT !.stats.position_losses = @ + 1,
                   !.stats.gross_loss = RSub(@, p.realized_pnl),
                   !.stats.max_loss = RMin(@, p.realized_pnl),
                   !.l_streak = @ + 1,
                   !.w_streak = 0]

\* lines 207-222: classify the closed Position
settle_classify(b, p) ==
    IF RLt(Zero, p.realized_pnl)
    THEN [b EXCEPT !.stats.position_wins = @ + 1,
                   !.stats.gross_profit = RAdd(@, p.realized_pnl),
                   !.stats.max_win = RMax(@, p.realized_pnl),
                   !.w_streak = @ + 1,
                   !.l_streak = 0,
                   !.stats.long_wins = IF p.side = "LONG" THEN @ + 1 ELSE @,
                   !.stats.short_wins = IF p.side = "SHORT" THEN @ + 1 ELSE @]
    ELSE [b EXCEPT !.stats.position_losses = @ + 1,
                   !.stats.gross_loss = RAdd(@, p.realized_pnl),
                   !.stats.max_loss = RMin(@, p.realized_pnl),
                   !.l_streak = @ + 1,
                   !.w_streak = 0]

\* lines 224-228: the holding time in hours, from the first entry order to
\* the last exit order, and the average over stats.positions as the
\* previous update left it (line 237 refreshes it later)
settle_duration(b, p) ==
    Let(RDiv(R(p.exit_orders[Len(p.exit_orders)].timestamp
               - p.entry_orders[1].timestamp), R(3600)), LAMBDA duration :
    Let(RAdd(b.stats.exposure_time, duration), LAMBDA exposure_time :
        [b EXCEPT !.stats.exposure_time = exposure_time,
                  !.stats.avg_position_duration =
                      IF b.stats.positions > 0
                      THEN RDiv(exposure_time, R(b.stats.positions))
                      ELSE Zero]))

\* lines 230-232
settle_streaks(b, p) ==
    [b EXCEPT !.stats.max_win_streak = Max(@, b.w_streak),
              !.stats.max_loss_streak = Max(@, b.l_streak),
              !.stats.total_pnl = RAdd(@, p.realized_pnl)]

\* a variant of recompute that tracks the drawdown as the lowest equity
\* seen (the statement left commented out at line 180)
recompute_lowest_equity(b, m) ==
    Let(b.stats, LAMBDA s0 :
    Let(s0.exit_wins + s0.exit_losses, LAMBDA total_exits :
    Let(m.position_count, LAMBDA positions :
    Let(RAdd(s0.pnl, s0.total_pnl), LAMBDA equity :
    Let(RMax(b.peak_equity, equity), LAMBDA peak :
    Let(RSub(peak, equity), LAMBDA drawdown :
        [b EXCEPT
           !.stats.positions = positions,
           !.stats.fees_paid = m.total_fees,
           !.stats.exit_winrate =
               IF total_exits > 0 THEN Rat(s0.exit_wins, total_exits)
               ELSE Zero,
           !.stats.profit_factor =
               IF RLt(s0.gross_loss, Zero)
               THEN RDiv(s0.gross_profit, RAbs(s0.gross_loss))
               ELSE NaN,
           !.stats.longs = m.total_longs,
           !.stats.long_winrate =
               IF m.total_longs > 0 THEN Rat(s0.long_wins, m.total_longs)
               ELSE Zero,
           !.stats.shorts = m.total_shorts,
           !.stats.short_winrate =
               IF m.total_shorts > 0 THEN Rat(s0.short_wins, m.total_shorts)
               ELSE Zero,
           !.stats.position_winrate =
               IF positions > 0 THEN Rat(s0.position_wins, positions)
               ELSE Zero,
           !.stats.position_frquency =
               IF RLt(Zero, s0.exposure_time)
               THEN RDiv(R(positions), s0.exposure_time) ELSE Zero,
           !.stats.avg_position_pnl =
               IF positions > 0 THEN RDiv(s0.total_pnl, R(positions))
               ELSE Zero,
           !.stats.equity_curve = Append(@, equity),
           !.peak_equity = peak,
           !.stats.max_drawdown = RMin(@, equity)]))))))

\* lines 237-258: derived ratios and the mark step
recompute(b, m) ==
    Let(b.stats, LAMBDA s0 :
    Let(s0.exit_wins + s0.exit_losses, LAMBDA total_exits :
    Let(m.position_count, LAMBDA positions :
    Let(RAdd(s0.pnl, s0.total_pnl), LAMBDA equity :
    Let(RMax(b.peak_equity, equity), LAMBDA peak :
    Let(RSub(peak, equity), LAMBDA drawdown :
        [b EXCEPT
           !.stats.positions = positions,
           !.stats.fees_paid = m.total_fees,
           !.stats.exit_winrate =
               IF total_exits > 0 THEN Rat(s0.exit_wins, total_exits)
               ELSE Zero,
           !.stats.profit_factor =
               IF RLt(s0.gross_loss, Zero)
               THEN RDiv(s0.gross_profit, RAbs(s0.gross_loss))
               ELSE NaN,
           !.stats.longs = m.total_longs,
           !.stats.long_winrate =
               IF m.total_longs > 0 THEN Rat(s0.long_wins, m.total_longs)
               ELSE Zero,
           !.stats.shorts = m.total_shorts,
           !.stats.short_winrate =
               IF m.total_shorts > 0 THEN Rat(s0.short_wins, m.total_shorts)
               ELSE Zero,
           !.stats.position_winrate =
               IF positions > 0 THEN Rat(s0.position_wins, positions)
               ELSE Zero,
           !.stats.position_frquency =
               IF RLt(Zero, s0.exposure_time)
               THEN RDiv(R(positions), s0.exposure_time) ELSE Zero,
           !.stats.avg_position_pnl =
               IF positions > 0 THEN RDiv(s0.total_pnl, R(positions))
               ELSE Zero,
           !.stats.equity_curve = Append(@, equity),
           !.peak_equity = peak,
           !.stats.max_drawdown = RMax(@, drawdown)]))))))

\* lines 205-258, the Position read at line 172 has qty == 0: settle, then
\* the ratios.  pos.exit_orders[-1] raises IndexError on a Position without
\* exit orders; avg_win and avg_loss divide by position_wins and
\* position_losses whenever exit_wins and exit_losses are positive
settle(m, b, p) ==
    Let(settle_classify(b, p), LAMBDA b1 :
        IF Len(p.exit_orders) = 0
        THEN [pm |-> m, bt |-> b1, raised |-> "IndexError"]
        ELSE
        Let(settle_streaks(settle_duration(b1, p), p), LAMBDA b2 :
            IF b2.stats.exit_wins > 0 /\ b2.stats.position_wins = 0
            THEN [pm |-> m, bt |-> b2, raised |-> "ZeroDivisionError"]
            ELSE
            Let([b2 EXCEPT !.stats.avg_win =
                    IF b2.stats.exit_wins > 0
                    THEN RDiv(b2.stats.gross_profit,
                              R(b2.stats.position_wins))
                    ELSE Zero], LAMBDA b3 :
                IF b3.stats.exit_losses > 0 /\ b3.stats.position_losses = 0
                THEN [pm |-> m, bt |-> b3, raised |-> "ZeroDivisionError"]
                ELSE
                Let([b3 EXCEPT !.stats.avg_loss =
                        IF b3.stats.exit_losses > 0
                        THEN RDiv(b3.stats.gross_loss,
                                  R(b3.stats.position_losses))
                        ELSE Zero], LAMBDA b4 :
                    [pm |-> m, bt |-> recompute(b4, m),
                     raised |-> "none"]))))

\* BaseBacktester.update: the result is the ledger, the backtester and the
\* exception the call ended with ("none" when it returned)
update(m, b, c) ==
    Let(m.position, LAMBDA pos :
        IF pos = 0
        THEN [pm |-> m, bt |-> recompute(b, m), raised |-> "none"]
        ELSE
        Let(IF RLt(Zero, m.positions[pos].qty)
            THEN sl_loop(tp_loop([pm |-> m, bt |-> b], pos, c, 1), pos, c, 1)
            ELSE [pm |-> m, bt |-> b], LAMBDA w2 :
            IF w2.pm.positions[pos].qty # Zero
            THEN [pm |-> w2.pm, bt |-> recompute(w2.bt, w2.pm),
                  raised |-> "none"]
            ELSE settle(w2.pm, w2.bt, w2.pm.positions[pos])))

----------------------------------------------------------------------------
(* core/base_strategy.py *)

\* a variant of plot_handoff in which the failed hand-off has already
\* drained the ledger's window of recent events
plot_handoff_drains_events(r, plot_stats) ==
    [pm |-> IF r.raised = "none" /\ plot_stats
            THEN clear_recent_events(r.pm) ELSE r.pm,
     bt |-> r.bt, raised |-> r.raised,
     plot |-> IF r.raised # "none" THEN "not reached"
              ELSE IF ~plot_stats THEN "off"
              ELSE "AttributeError caught"]

\* BaseStrategy.update, lines 86-106, after backtester.update(candle) has
\* returned (r is its result; an exception of backtester.update leaves
\* BaseStrategy.update before this point).  With plot_stats set, the try
\* block begins with self.backtester.get_recent_position_events(), a method
\* BaseBacktester does not have: the AttributeError is caught by the
\* except clause at line 105, before PlotData is built and before
\* queue.put_nowait, and the ledger and the statistics are not written
plot_handoff(r, plot_stats) ==
    [pm |-> r.pm, bt |-> r.bt, raised |-> r.raised,
     plot |-> IF r.raised # "none" THEN "not reached"
              ELSE IF ~plot_stats THEN "off"
              ELSE "AttributeError caught"]

\* BaseStrategy.on_stream_end: both stop events are set
on_stream_end(s) ==
    [s EXCEPT !.print_stop_event = TRUE, !.plot_stop_event = TRUE]

----------------------------------------------------------------------------
(* Inputs: bars and the arguments of the strategy's calls *)

Half == Rat(1, 2)

Bar(h, l, c) == [high |-> h, low |-> l, close |-> c]

\* bars around an entry price of 10: one that does not move, one that
\* reaches 11 and 9 and closes high, one that falls to 9, and one whose low
\* is above its high (BaseCandle stores what it is given)
Candles == {Bar(10, 10, 10), Bar(11, 9, 11), Bar(10, 9, 9), Bar(9, 11, 10)}

Leg(price, percent) == [price |-> R(price), percent |-> percent]

OpenArgs(tpPrice, slPrice) ==
    LET A(value, qty, tp, sl, fees) ==
            [value |-> value, qty |-> qty, tp |-> tp, sl |-> sl,
             fees |-> fees]
    IN  { A(R(20), None, <<>>, <<>>, One),
          A(None, R(2), <<Leg(tpPrice, One)>>, <<Leg(slPrice, One)>>, Zero),
          A(None, R(2), <<Leg(tpPrice, Half), Leg(tpPrice, Half)>>,
            <<Leg(slPrice, Half), Leg(slPrice, Half)>>, One),
          A(None, R(-1), <<>>, <<>>, Zero),
          A(None, Zero, <<>>, <<>>, One) }

LongArgs == OpenArgs(11, 9)
ShortArgs == OpenArgs(9, 11)

CloseArgs ==
    { [qty |-> None, percentage |-> None],
      [qty |-> R(3), percentage |-> None],
      [qty |-> None, percentage |-> Half],
      [qty |-> None, percentage |-> R(2)],
      [qty |-> R(-1), percentage |-> None],
      [qty |-> None, percentage |-> Zero] }

----------------------------------------------------------------------------
(* The run: BaseDataProvider.run, BaseStrategy.update per bar *)

Init ==
    /\ pm = BasePositionManager
    /\ bt = BaseBacktester
    /\ candle = [timestamp |-> 0, high |-> 10, low |-> 10, close |-> 10]
    /\ phase = "idle"
    /\ bars = 0
    /\ calls = 0
    /\ op = [name |-> "init"]
    /\ stop = [print_stop_event |-> FALSE, plot_stop_event |-> FALSE]

\* a variant of StartBar in which the provider does not wait for the
\* subscriber's update before it delivers the next bar
StartBar_not_awaited ==
    /\ bars < MaxBars
    /\ \E k \in Candles :
          candle' = [timestamp |-> bars + 1, high |-> k.high,
                     low |-> k.low, close |-> k.close]
    /\ bars' = bars + 1
    /\ phase' = "on_candle"
    /\ op' = [name |-> "bar"]
    /\ UNCHANGED <<pm, bt, calls, stop>>

\* the provider's loop awaits notify(), which awaits the subscriber's
\* update, before it takes the next bar from the stream: the next bar is
\* delivered only when no update is running.  BaseStrategy.update then
\* enters on_candle
StartBar ==
    /\ phase = "idle"
    /\ bars < MaxBars
    /\ \E k \in Candles :
          candle' = [timestamp |-> bars + 1, high |-> k.high,
                     low |-> k.low, close |-> k.close]
    /\ bars' = bars + 1
    /\ phase' = "on_candle"
    /\ op' = [name |-> "bar"]
    /\ UNCHANGED <<pm, bt, calls, stop>>

Long ==
    /\ phase = "on_candle"
    /\ calls < MaxCalls
    /\ \E a \in LongArgs :
          /\ pm' = long(pm, candle, a.value, a.qty, a.tp, a.sl, a.fees)
          /\ op' = [name |-> "long", args |-> a]
    /\ calls' = calls + 1
    /\ UNCHANGED <<bt, candle, phase, bars, stop>>

Short ==
    /\ phase = "on_candle"
    /\ calls < MaxCalls
    /\ \E a \in ShortArgs :
          /\ pm' = short(pm, candle, a.value, a.qty, a.tp, a.sl, a.fees)
          /\ op' = [name |-> "short", args |-> a]
    /\ calls' = calls + 1
    /\ UNCHANGED <<bt, candle, phase, bars, stop>>

Close ==
    /\ phase = "on_candle"
    /\ calls < MaxCalls
    /\ \E a \in CloseArgs :
          /\ pm' = close(pm, candle, a.qty, a.percentage)
          /\ op' = [name |-> "close", args |-> a]
    /\ calls' = calls + 1
    /\ UNCHANGED <<bt, candle, phase, bars, stop>>

\* on_candle empties the window of recent events
ClearRecentEvents ==
    /\ phase = "on_candle"
    /\ calls < MaxCalls
    /\ pm' = clear_recent_events(pm)
    /\ op' = [name |-> "clear_recent_events"]
    /\ calls' = calls + 1
    /\ UNCHANGED <<bt, candle, phase, bars, stop>>

\* a variant of Update in which the provider gathers without
\* return_exceptions: an exception of the subscriber's update ends run()
Update_exception_propagates ==
    /\ phase = "on_candle"
    /\ \E u \in {update(pm, bt, candle)} :
       \E plot_stats \in BOOLEAN :
       \E r \in {plot_handoff(u, plot_stats)} :
          /\ pm' = r.pm
          /\ bt' = r.bt
          /\ op' = [name |-> "update", raised |-> r.raised,
                    plot |-> r.plot]
          /\ phase' = IF r.raised = "none" THEN "idle" ELSE "crashed"
    /\ UNCHANGED <<candle, bars, calls, stop>>

\* on_candle has returned; BaseStrategy.update runs the backtester on the
\* same bar and then, with plot_stats set (run() sets the attribute; the
\* model lets it be either on every bar), hands the bar to the plotter.  An
\* exception leaves what the call had written so far and is swallowed by
\* the provider's gather(return_exceptions=True)
Update ==
    /\ phase = "on_candle"
    /\ \E u \in {update(pm, bt, candle)} :
       \E plot_stats \in BOOLEAN :
       \E r \in {plot_handoff(u, plot_stats)} :
          /\ pm' = r.pm
          /\ bt' = r.bt
          /\ op' = [name |-> "update", raised |-> r.raised,
                    plot |-> r.plot]
    /\ phase' = "idle"
    /\ UNCHANGED <<candle, bars, calls, stop>>

\* the stream is exhausted (a finite stream may end after any bar, or
\* hold none): the provider's loop ends once the notify() of the last bar
\* has returned, and run() awaits the subscriber's on_stream_end
StreamEnd ==
    /\ phase = "idle"
    /\ stop' = on_stream_end(stop)
    /\ phase' = "ended"
    /\ op' = [name |-> "on_stream_end"]
    /\ UNCHANGED <<pm, bt, candle, bars, calls>>

Next ==
    \/ StartBar \/ Long \/ Short \/ Close \/ ClearRecentEvents \/ Update
    \/ StreamEnd

Spec == Init /\ [][Next]_vars

\* the event loop keeps running run(): once on_candle has returned, the
\* worker thread's update ends (it returns or raises), and once the stream
\* is exhausted run() goes on to on_stream_end
LiveSpec == Spec /\ WF_vars(Update) /\ WF_vars(StreamEnd)

----------------------------------------------------------------------------
(* Vocabulary of the properties *)

Inf == <<1, 0>>

Sign(p) == IF p.side = "SHORT" THEN R(-1) ELSE One

\* heap indices of the Positions whose state is OPEN
OpenIdx(m) == {i \in DOMAIN m.positions : m.positions[i].state = "OPEN"}

\* the step is a long() made while a SHORT is open, or a short() made while
\* a LONG is open
OppositeCall ==
    /\ pm.position # 0
    /\ \/ op'.name = "long" /\ Pos(pm).side = "SHORT"
       \/ op'.name = "short" /\ Pos(pm).side = "LONG"

\* the closed Positions, in the order they were opened (and closed)
IsClosed(p) == p.state = "CLOSED"
Closed == SelectSeq(pm.positions, IsClosed)

Won(p) == RLt(Zero, p.realized_pnl)

RECURSIVE SumPnl(_)
SumPnl(ps) ==
    IF ps = <<>> THEN Zero
    ELSE RAdd(ps[1].realized_pnl, SumPnl(Tail(ps)))

IsCloseFull(e) == e.event_type = "close_full"
CloseFullCount == Len(SelectSeq(pm.all_events, IsCloseFull))

\* length of the run of outcomes equal to w that ends the sequence
RECURSIVE TrailingRun(_, _)
TrailingRun(ps, w) ==
    IF ps = <<>> THEN 0
    ELSE IF Won(ps[Len(ps)]) # w THEN 0
    ELSE 1 + TrailingRun(SubSeq(ps, 1, Len(ps) - 1), w)

\* length of the longest run of outcomes equal to w
RECURSIVE LongestRun(_, _)
LongestRun(ps, w) ==
    IF ps = <<>> THEN 0
    ELSE Max(TrailingRun(ps, w), LongestRun(SubSeq(ps, 1, Len(ps) - 1), w))

----------------------------------------------------------------------------
(* Properties *)

\* C1: at most one Position is open in every state, and it is the one the
\* ledger refers to; a long() while a SHORT is open (a short() while a LONG
\* is open) is rejected: the open Position keeps its side, qty and
\* avg_price and no Position is created.
C1_OneOpenOppositeRejected ==
    [][ /\ Cardinality(OpenIdx(pm')) <= 1
        /\ OpenIdx(pm') \subseteq {pm'.position}
        /\ OppositeCall =>
              /\ pm'.position = pm.position
              /\ Len(pm'.positions) = Len(pm.positions)
              /\ Pos(pm').side = Pos(pm).side
              /\ Pos(pm').qty = Pos(pm).qty
              /\ Pos(pm').avg_price = Pos(pm).avg_price
              /\ pm'.position_count = pm.position_count ]_vars

\* a long() has just been rejected against the open SHORT
C1_Witness ==
    /\ op.name = "long"
    /\ pm.position # 0
    /\ Pos(pm).side = "SHORT"
    /\ Len(pm.positions) = 1

\* C2: a long()/short() made while a Position of the opposite side is open
\* leaves the whole ledger (Position, counters, fee total, events) and the
\* statistics as they were, whatever the arguments.
C2_OppositeCallChangesNothing ==
    [][ OppositeCall => pm' = pm /\ bt' = bt ]_vars

\* C3: a Position opened by one entry fill and fully closed by one exit
\* fill has realized_pnl = sign * (exit price - entry price) * quantity
\* - entry fee - exit fee.
C3_RealizedPnlNetOfFees ==
    \A i \in DOMAIN pm.positions :
        LET p == pm.positions[i]
        IN  (IsClosed(p) /\ Len(p.entry_orders) = 1 /\ Len(p.exit_orders) = 1)
            => LET e == p.entry_orders[1]
                   x == p.exit_orders[1]
                   gross == RMul(Sign(p), RMul(RSub(x.price, e.price),
                                               e.quantity))
               IN  p.realized_pnl = RSub(RSub(gross, e.fees), x.fees)

\* C4: the qty of every Position is >= 0 in every reachable state.
C4_QtyNonNegative ==
    \A i \in DOMAIN pm.positions : RLe(Zero, pm.positions[i].qty)

\* C5: a step that applies exit fills to a Position (close(), take-profit
\* or stop-loss legs, partial or full) leaves its avg_price and side
\* unchanged, and a step changes a Position's avg_price only by applying an
\* entry fill to it.
C5_ExitKeepsAvgPrice ==
    [][ \A i \in DOMAIN pm.positions :
           LET p == pm.positions[i]
               q == pm'.positions[i]
           IN  /\ Len(q.exit_orders) > Len(p.exit_orders)
                    => q.avg_price = p.avg_price /\ q.side = p.side
               /\ q.avg_price # p.avg_price
                    => Len(q.entry_orders) > Len(p.entry_orders) ]_vars

\* a take-profit leg has partly closed a Position that is still open
C5_Witness ==
    /\ op.name = "update"
    /\ pm.position # 0
    /\ Pos(pm).reached_tp
    /\ Len(Pos(pm).exit_orders) >= 1
    /\ RLt(Zero, Pos(pm).qty)
    /\ Pos(pm).avg_price # Zero

\* C6: on an open Position, close(qty = x) with x above the open quantity
\* closes exactly the open quantity (the Position is CLOSED and dropped, and
\* the close_full event carries the quantity that was open);
\* close(percentage = p) closes the open quantity times p clamped to [0, 1];
\* close() closes the full quantity.
C6_CloseClamps ==
    [][ (op'.name = "close" /\ pm.position # 0 /\ Pos(pm).qty # Zero) =>
          LET a == op'.args
              p == Pos(pm)
              q == pm'.positions[pm.position]
              full == /\ pm'.position = 0
                      /\ IsClosed(q)
                      /\ Len(pm'.all_events) = Len(pm.all_events) + 1
                      /\ pm'.all_events[Len(pm'.all_events)].event_type
                            = "close_full"
                      /\ pm'.all_events[Len(pm'.all_events)].quantity = p.qty
          IN  /\ (a.qty # None /\ RLt(p.qty, a.qty)) => full
              /\ (a.qty = None /\ a.percentage # None) =>
                    q.qty = RSub(p.qty,
                                 RMul(p.qty, RMin(RMax(a.percentage, Zero),
                                                  One)))
              /\ (a.qty = None /\ a.percentage = None) => full ]_vars

\* C7: when the open Position has one take-profit leg (on the profitable
\* side of avg_price) and one stop-loss leg, each for the full quantity, and
\* the bar satisfies both triggers, the
\* update closes the Position by the take-profit fill with realized_pnl
\* = sign * (tp_price - avg_price) * qty minus the Position's fees, counts
\* one more winning Position, adds that pnl to gross_profit, and the
\* stop-loss leg applies no fill.
C7_TakeProfitFirst ==
    [][ ( /\ op'.name = "update"
          /\ pm.position # 0
          /\ RLt(Zero, Pos(pm).qty)
          /\ Len(Pos(pm).tp) = 1
          /\ Len(Pos(pm).sl) = 1
          /\ Pos(pm).tp[1].qty = Pos(pm).qty
          /\ Pos(pm).sl[1].qty = Pos(pm).qty
          /\ RLt(Zero, RMul(Sign(Pos(pm)), RSub(Pos(pm).tp[1].price,
                                                 Pos(pm).avg_price)))
          /\ tp_triggered(Pos(pm), candle, Pos(pm).tp[1].price)
          /\ sl_triggered(Pos(pm), candle, Pos(pm).sl[1].price) )
        => LET p == Pos(pm)
               q == pm'.positions[pm.position]
               gain == RMul(Sign(p), RMul(RSub(p.tp[1].price, p.avg_price),
                                          p.qty))
           IN  /\ IsClosed(q)
               /\ q.reached_tp
               /\ Len(q.exit_orders) = Len(p.exit_orders) + 1
               /\ q.realized_pnl
                     = RSub(RAdd(p.realized_pnl, gain), q.total_fees)
               /\ bt'.stats.position_wins = bt.stats.position_wins + 1
               /\ bt'.stats.gross_profit
                     = RAdd(bt.stats.gross_profit, q.realized_pnl) ]_vars

\* C8: after each bar every Position that became CLOSED has been settled
\* exactly once: position_wins + position_losses is the number of
\* close_full events, and total_pnl is the sum of realized_pnl over the
\* closed Positions.
C8_EveryCloseSettledOnce ==
    phase = "idle" =>
        /\ bt.stats.position_wins + bt.stats.position_losses = CloseFullCount
        /\ bt.stats.total_pnl = SumPnl(Closed)

\* C9: at most one of the current streaks is non-zero, max_win_streak and
\* max_loss_streak are running maxima of the current streaks, and after each
\* bar the streaks are those of the history of closed Positions: the current
\* win (loss) streak is the run of winning (losing) closes that ends the
\* history and the maxima are its longest runs (two losing closes followed
\* by a winning one: max_loss_streak 2, win streak 1, max_win_streak 1).
C9_Streaks ==
    /\ bt.w_streak = 0 \/ bt.l_streak = 0
    /\ bt.stats.max_win_streak >= bt.w_streak
    /\ bt.stats.max_loss_streak >= bt.l_streak
    /\ phase = "idle" =>
          /\ bt.w_streak = TrailingRun(Closed, TRUE)
          /\ bt.l_streak = TrailingRun(Closed, FALSE)
          /\ bt.stats.max_win_streak = LongestRun(Closed, TRUE)
          /\ bt.stats.max_loss_streak = LongestRun(Closed, FALSE)

\* C10: after every update, profit_factor is +infinity when gross_loss = 0
\* and a winning Position has settled, 0 when no Position has settled, and
\* gross_profit / |gross_loss| when gross_loss < 0.
C10_ProfitFactor ==
    op.name = "update" =>
        LET s == bt.stats
        IN  /\ (s.gross_loss = Zero /\ s.position_wins >= 1)
                  => s.profit_factor = Inf
            /\ (s.position_wins + s.position_losses = 0)
                  => s.profit_factor = Zero
            /\ RLt(s.gross_loss, Zero)
                  => s.profit_factor = RDiv(s.gross_profit, RAbs(s.gross_loss))

\* C11: no update ends in a division by zero, and after every update
\* avg_win is gross_profit / position_wins when position_wins > 0 and 0
\* otherwise, and avg_loss is gross_loss / position_losses when
\* position_losses > 0 and 0 otherwise (also when a Position closed by a
\* take-profit leg settles as a loss).
C11_RatiosNeverRaise ==
    op.name = "update" =>
        LET s == bt.stats
        IN  /\ op.raised # "ZeroDivisionError"
            /\ s.avg_win = IF s.position_wins > 0
                           THEN RDiv(s.gross_profit, R(s.position_wins))
                           ELSE Zero
            /\ s.avg_loss = IF s.position_losses > 0
                            THEN RDiv(s.gross_loss, R(s.position_losses))
                            ELSE Zero

\* C12: max_drawdown never decreases from one step to the next and is never
\* negative, and a step changes it only in an update, to peak_equity minus
\* the equity that update appended to equity_curve.
C12_DrawdownMonotone ==
    [][ /\ RLe(bt.stats.max_drawdown, bt'.stats.max_drawdown)
        /\ RLe(Zero, bt'.stats.max_drawdown)
        /\ bt'.stats.max_drawdown # bt.stats.max_drawdown =>
              /\ op'.name = "update"
              /\ Len(bt'.stats.equity_curve) = Len(bt.stats.equity_curve) + 1
              /\ bt'.stats.max_drawdown =
                    RSub(bt'.peak_equity,
                         bt'.stats.equity_curve[Len(bt'.stats.equity_curve)])
      ]_vars

\* an update has just raised max_drawdown above zero
C12_Witness ==
    /\ op.name = "update"
    /\ op.raised = "none"
    /\ RLt(Zero, bt.stats.max_drawdown)
    /\ bt.stats.max_drawdown =
          RSub(bt.peak_equity,
               bt.stats.equity_curve[Len(bt.stats.equity_curve)])
    /\ \/ Len(bt.stats.equity_curve) = 1
       \/ RLt(RSub(bt.peak_equity,
                   bt.stats.equity_curve[Len(bt.stats.equity_curve) - 1]),
              bt.stats.max_drawdown)

\* the unrealized pnl of the ledger's open Position marked at the bar's
\* close (0 without an open Position)
Unrealized ==
    IF pm.position # 0 THEN compute_upnl(Pos(pm), R(candle.close)) ELSE Zero

\* C13: after every update that completed (the open Position, if any,
\* holding a positive quantity), the equity appended to equity_curve is total realized pnl plus the unrealized pnl of the open
\* Position marked at the bar's close, and stats.pnl is that unrealized pnl
\* (non-zero when avg_price differs from the bar's close).
C13_EquityMarksOpenPosition ==
    ( /\ op.name = "update"
      /\ op.raised = "none"
      /\ pm.position # 0 => RLt(Zero, Pos(pm).qty) ) =>
        /\ bt.stats.pnl = Unrealized
        /\ bt.stats.equity_curve[Len(bt.stats.equity_curve)]
              = RAdd(bt.stats.total_pnl, Unrealized)

\* the legs of a Position's lists the bar does not trigger, in stored order
UntriggeredTp(p, c) ==
    SelectSeq(p.tp, LAMBDA leg : ~tp_triggered(p, c, leg.price))

UntriggeredSl(p, c) ==
    SelectSeq(p.sl, LAMBDA leg : ~sl_triggered(p, c, leg.price))

\* C14: an update on an open Position (qty > 0) that leaves it open has
\* fired every take-profit leg and every stop-loss leg whose trigger the bar
\* satisfies: the lists left on the Position are the legs the bar did not
\* trigger, in stored order, and no triggered leg remains.
C14_EveryTriggeredLegFires ==
    [][ ( /\ op'.name = "update"
          /\ pm.position # 0
          /\ RLt(Zero, Pos(pm).qty)
          /\ pm'.positions[pm.position].state = "OPEN" )
        => LET p == Pos(pm)
               q == pm'.positions[pm.position]
           IN  /\ q.tp = UntriggeredTp(p, candle)
               /\ q.sl = UntriggeredSl(p, candle)
               /\ \A i \in DOMAIN q.tp :
                     ~tp_triggered(q, candle, q.tp[i].price)
               /\ \A i \in DOMAIN q.sl :
                     ~sl_triggered(q, candle, q.sl[i].price) ]_vars

\* the number of events of one type in the full history
EventCount(type) ==
    Len(SelectSeq(pm.all_events, LAMBDA e : e.event_type = type))

\* C15: the event history holds one tp_hit event per take-profit leg that
\* fired and one sl_hit event per stop-loss leg that fired: the number of
\* tp_hit events is exit_wins and the number of sl_hit events is
\* exit_losses.
C15_HitEventsRecorded ==
    /\ EventCount("tp_hit") = bt.stats.exit_wins
    /\ EventCount("sl_hit") = bt.stats.exit_losses

\* the step is a long() / short() whose sizing resolves to a quantity
\* (value or qty is given and non-zero), made while a Position of the same
\* side is open
SameSideCall ==
    /\ pm.position # 0
    /\ op'.name \in {"long", "short"}
    /\ Truthy(op'.args.value) \/ Truthy(op'.args.qty)
    /\ \/ op'.name = "long" /\ Pos(pm).side = "LONG"
       \/ op'.name = "short" /\ Pos(pm).side = "SHORT"

\* the quantity a long() / short() resolves from its arguments on bar c
Resolved(a, c) ==
    IF Truthy(a.value) THEN RDiv(a.value, R(c.close)) ELSE a.qty

\* C16: a sized long() while a LONG is open (short() while a SHORT is open)
\* applies its fill as an entry fill to the open Position (one more entry
\* order for the resolved quantity at the bar's close, qty raised by it,
\* avg_price the quantity-weighted average, no exit order, realized_pnl and
\* side kept), records exactly one
\* increase_long / increase_short event, creates no Position and leaves
\* position_count, total_longs and total_shorts unchanged.
C16_SameSideIsIncrease ==
    [][ SameSideCall =>
          LET a == op'.args
              p == Pos(pm)
              q == Pos(pm')
              quantity == Resolved(a, candle)
              e == pm'.all_events[Len(pm'.all_events)]
          IN  /\ pm'.position = pm.position
              /\ Len(pm'.positions) = Len(pm.positions)
              /\ q.entry_orders
                    = Append(p.entry_orders,
                             Order(R(candle.close), quantity, a.fees,
                                   datetime_now(pm)))
              /\ q.qty = RAdd(p.qty, quantity)
              /\ q.qty # Zero =>
                    RMul(q.avg_price, q.qty)
                       = RAdd(RMul(p.avg_price, p.qty),
                              RMul(R(candle.close), quantity))
              /\ q.exit_orders = p.exit_orders
              /\ q.realized_pnl = p.realized_pnl
              /\ q.side = p.side
              /\ q.state = p.state
              /\ Len(pm'.all_events) = Len(pm.all_events) + 1
              /\ e.event_type = IF op'.name = "long" THEN "increase_long"
                                ELSE "increase_short"
              /\ e.quantity = quantity
              /\ pm'.position_count = pm.position_count
              /\ pm'.total_longs = pm.total_longs
              /\ pm'.total_shorts = pm.total_shorts ]_vars

\* a long() has just increased the open LONG
C16_Witness ==
    /\ op.name = "long"
    /\ pm.position # 0
    /\ Pos(pm).side = "LONG"
    /\ Len(Pos(pm).entry_orders) = 2
    /\ RLt(Zero, Pos(pm).entry_orders[2].quantity)
    /\ pm.all_events[Len(pm.all_events)].event_type = "increase_long"
    /\ pm.position_count = 1

\* C17: a long() / short() whose resolved quantity (qty, or value divided by
\* the bar's close) is <= 0 is rejected: the ledger (Positions, events,
\* counters, fee total) and the statistics are the same after the call as
\* before it.
C17_NonPositiveQuantityRejected ==
    [][ ( /\ op'.name \in {"long", "short"}
          /\ \/ ~Truthy(op'.args.value) /\ ~Truthy(op'.args.qty)
             \/ RLe(Resolved(op'.args, candle), Zero) )
        => pm' = pm /\ bt' = bt ]_vars

\* the step is a close() made with no Position open, on a Position whose
\* qty is zero, or with qty <= 0 or (without qty) percentage <= 0
NullClose ==
    /\ op'.name = "close"
    /\ \/ pm.position = 0
       \/ Pos(pm).qty = Zero
       \/ op'.args.qty # None /\ RLe(op'.args.qty, Zero)
       \/ /\ op'.args.qty = None
          /\ op'.args.percentage # None
          /\ RLe(op'.args.percentage, Zero)

\* C18: a close() made when no Position is open or its qty is zero, or
\* whose resolved quantity is <= 0 (qty <= 0 or percentage <= 0), changes
\* nothing: the Position, the counters, event_counter, all_events,
\* recent_events and the statistics are as before the call.
C18_NullCloseChangesNothing ==
    [][ NullClose => pm' = pm /\ bt' = bt ]_vars

\* a close(qty = -1) has just returned on an open Position that holds a
\* positive quantity
C18_Witness ==
    /\ op.name = "close"
    /\ op.args.qty = R(-1)
    /\ pm.position # 0
    /\ RLt(Zero, Pos(pm).qty)
    /\ Pos(pm).exit_orders = <<>>

\* C19: in a close() or an update, every exit fill applied to the open
\* Position records exactly one event carrying the fill's quantity:
\* close_partial when qty is still > 0 after the fill, close_full when the
\* fill brought qty to zero (only the last fill of a step can); after a
\* close_full the ledger refers to no Position, has_position is false and
\* the Position is CLOSED; after a close_partial the Position is still the
\* ledger's open Position.  A step that applies no fill records no event.
C19_CloseEvents ==
    [][ op'.name \in {"close", "update"} =>
          IF pm.position = 0
          THEN pm'.all_events = pm.all_events /\ pm'.position = 0
          ELSE
          LET p == Pos(pm)
              q == pm'.positions[pm.position]
              n == Len(q.exit_orders) - Len(p.exit_orders)
              m == Len(pm.all_events)
          IN  /\ n >= 0
              /\ Len(pm'.all_events) = m + n
              /\ SubSeq(pm'.all_events, 1, m) = pm.all_events
              /\ \A k \in 1..n :
                    LET e == pm'.all_events[m + k]
                        x == q.exit_orders[Len(p.exit_orders) + k]
                    IN  /\ e.quantity = x.quantity
                        /\ RLt(Zero, x.quantity)
                        /\ e.event_type =
                              IF k = n /\ q.qty = Zero THEN "close_full"
                              ELSE "close_partial"
              /\ (n > 0 /\ q.qty = Zero) =>
                    /\ pm'.position = 0
                    /\ ~has_position(pm')
                    /\ q.state = "CLOSED"
              /\ (n > 0 /\ q.qty # Zero) =>
                    /\ RLt(Zero, q.qty)
                    /\ pm'.position = pm.position
                    /\ has_position(pm')
                    /\ q.state = "OPEN"
              /\ n = 0 => pm'.position = pm.position /\ q.state = p.state
      ]_vars

\* a close() has just closed in full a Position that an earlier close()
\* had closed in part
C19_Witness ==
    /\ op.name = "close"
    /\ pm.position = 0
    /\ Len(pm.positions) = 1
    /\ pm.positions[1].state = "CLOSED"
    /\ Len(pm.positions[1].exit_orders) = 2
    /\ Len(pm.all_events) = 3
    /\ pm.all_events[2].event_type = "close_partial"
    /\ pm.all_events[3].event_type = "close_full"

\* the sequence l without the elements at the indices in S
RECURSIVE DropAt(_, _)
DropAt(l, S) ==
    IF l = <<>> THEN <<>>
    ELSE LET front == DropAt(SubSeq(l, 1, Len(l) - 1), S)
         IN  IF Len(l) \in S THEN front ELSE Append(front, l[Len(l)])

C21_PositionLifecycle ==
    [][ /\ \A i \in DOMAIN pm.positions :
              LET p == pm.positions[i]
                  q == pm'.positions[i]
              IN  /\ q.side = p.side
                  /\ (p.state = "OPEN" /\ q.state = "CLOSED")
                        <=> ( /\ p.state = "OPEN"
                              /\ Len(q.exit_orders) > Len(p.exit_orders)
                              /\ q.qty = Zero )
                  /\ p.state = "CLOSED" =>
                        /\ q.state = "CLOSED"
                        /\ q.entry_orders = p.entry_orders
                        /\ q.exit_orders = p.exit_orders
                        /\ q.qty = Zero
                        /\ pm.position # i
        /\ ( /\ op'.name \in {"long", "short"}
             /\ pm.position = 0
             /\ Truthy(op'.args.value) \/ Truthy(op'.args.qty) )
           => /\ Len(pm'.positions) = Len(pm.positions) + 1
              /\ pm'.position = Len(pm'.positions)
              /\ Pos(pm').state = "OPEN"
              /\ Pos(pm').side = IF op'.name = "long" THEN "LONG"
                                 ELSE "SHORT"
              /\ Len(Pos(pm').entry_orders) = 1
              /\ Pos(pm').exit_orders = <<>> ]_vars

\* a SHORT has been opened after a LONG was closed: the closed LONG is kept
\* as it was and the ledger refers to the new Position
C21_Witness ==
    /\ op.name = "short"
    /\ Len(pm.positions) = 2
    /\ pm.positions[1].side = "LONG"
    /\ pm.positions[1].state = "CLOSED"
    /\ pm.positions[1].qty = Zero
    /\ pm.position = 2
    /\ pm.positions[2].side = "SHORT"
    /\ pm.positions[2].state = "OPEN"

\* C22: every step (clear_recent_events included) leaves the records
\* all_events already holds unchanged and in place, and every record it
\* adds has an id greater than the id of every record before it.
C22_HistoryAppendOnly ==
    [][ /\ Len(pm'.all_events) >= Len(pm.all_events)
        /\ SubSeq(pm'.all_events, 1, Len(pm.all_events)) = pm.all_events
        /\ \A k \in (Len(pm.all_events) + 1)..Len(pm'.all_events) :
              \A j \in 1..(k - 1) :
                  pm'.all_events[j].id < pm'.all_events[k].id ]_vars

\* clear_recent_events has just emptied the window while the history holds
\* two events
C22_Witness ==
    /\ op.name = "clear_recent_events"
    /\ Len(pm.all_events) = 2
    /\ pm.all_events[1].id < pm.all_events[2].id
    /\ pm.recent_events = <<>>

\* recent_events is the last min(n, event_history_size) records of
\* all_events, in the same order, n being the number of events recorded
Window(m) ==
    LET n == Len(m.all_events)
        k == IF n < event_history_size THEN n ELSE event_history_size
    IN  m.recent_events = SubSeq(m.all_events, n - k + 1, n)

\* C23: recent_events starts as the window of all_events and every step
\* other than clear_recent_events keeps it so (the oldest entry leaves when
\* the window is full), while all_events keeps every record: as long as
\* clear_recent_events is not called, recent_events is the last
\* min(n, event_history_size) records of all_events.
C23_RecentIsWindow ==
    [][ /\ (op.name = "init" => Window(pm))
        /\ (op'.name # "clear_recent_events" /\ Window(pm)) =>
              /\ Window(pm')
              /\ Len(pm'.all_events) >= Len(pm.all_events) ]_vars

\* more events have been recorded than the window holds: the oldest has
\* been evicted from recent_events and all_events keeps it
C23_Witness ==
    /\ Len(pm.all_events) > event_history_size
    /\ Len(pm.recent_events) = event_history_size
    /\ Window(pm)
    /\ pm.recent_events[1] # pm.all_events[1]

\* C24: bars are processed one at a time: a bar is delivered only when the
\* update of the bar before it has completed (or none has started), and
\* every intent of the strategy and every backtester update acts on the bar
\* delivered last, before the next one is delivered.
C24_OneBarAtATime ==
    [][ /\ bars' # bars =>
              /\ phase = "idle"
              /\ op.name \in {"init", "update"}
              /\ Len(bt.stats.equity_curve) <= bars
              /\ bars' = bars + 1
              /\ candle'.timestamp = bars'
              /\ phase' = "on_candle"
              /\ pm' = pm /\ bt' = bt
        /\ (bars' = bars /\ op'.name # "on_stream_end") =>
              /\ phase = "on_candle"
              /\ candle' = candle
              /\ candle.timestamp = bars
              /\ op'.name \in {"long", "short", "close",
                               "clear_recent_events", "update"}
              /\ op'.name = "update" <=> phase' = "idle"
        /\ op'.name = "on_stream_end" =>
              /\ phase = "idle"
              /\ bars' = bars /\ candle' = candle
              /\ pm' = pm /\ bt' = bt ]_vars

\* the second bar has been delivered after the update of the first
\* completed
C24_Witness ==
    /\ bars = 2
    /\ phase = "on_candle"
    /\ op.name = "bar"
    /\ Len(bt.stats.equity_curve) = 1
    /\ pm.position # 0

\* C25: the hand-off to the plotter is attempted only after the backtester
\* update of the bar has returned; whether it is attempted or not and
\* whether it fails or not, the ledger and the statistics after the step
\* are exactly those the bar's processing produced, and the strategy is
\* ready for the next bar.
C25_PlotFailureIsolated ==
    [][ op'.name = "update" =>
          /\ pm' = update(pm, bt, candle).pm
          /\ bt' = update(pm, bt, candle).bt
          /\ op'.plot # "not reached" => op'.raised = "none"
          /\ phase' = "idle"
          /\ bars' = bars ]_vars

\* the hand-off of the second bar has failed after the bar's processing
\* appended its equity sample; the first bar's update went before it
C25_Witness ==
    /\ op.name = "update"
    /\ op.plot = "AttributeError caught"
    /\ bars = 2
    /\ phase = "idle"
    /\ Len(bt.stats.equity_curve) = 2
    /\ Len(pm.all_events) >= 1
    /\ pm.recent_events # <<>>

\* a bar whose low is not above its high and whose close lies between them
ValidBar(c) == c.low <= c.high /\ c.low <= c.close /\ c.close <= c.high

\* C26: once a structurally invalid bar (low > high, or close outside
\* [low, high]) has been delivered, no Position, event or statistic changes
\* because of it and no later bar is processed.
C26_InvalidBarRejected ==
    [][ ~ValidBar(candle) => pm' = pm /\ bt' = bt /\ bars' = bars ]_vars

\* the number of Positions settled so far
Completed == bt.stats.position_wins + bt.stats.position_losses

\* C28: after every update the statistics carry a Sharpe ratio; it is 0
\* while fewer than 3 Positions have completed, and it is a finite number.
C28_SharpeRatio ==
    op.name = "update" =>
        /\ "sharpe_ratio" \in DOMAIN bt.stats
        /\ Completed < 3 => bt.stats.sharpe_ratio = Zero
        /\ bt.stats.sharpe_ratio \notin {NaN, Inf, None}

\* C29: in an update a leg fires (it is removed from its list and counted
\* in exit_wins / exit_losses) only if the bar satisfies its trigger and
\* only while the Position is open with qty > 0: every firing applies an
\* exit fill to the open Position, and without an open Position of
\* positive quantity no leg fires.
C29_LegsFireOnlyWhenOpen ==
    [][ op'.name = "update" =>
          IF pm.position = 0
          THEN /\ bt'.stats.exit_wins = bt.stats.exit_wins
               /\ bt'.stats.exit_losses = bt.stats.exit_losses
          ELSE
          LET p == Pos(pm)
              q == pm'.positions[pm.position]
              firedTp == bt'.stats.exit_wins - bt.stats.exit_wins
              firedSl == bt'.stats.exit_losses - bt.stats.exit_losses
              fills == Len(q.exit_orders) - Len(p.exit_orders)
          IN  /\ \E S \in SUBSET DOMAIN p.tp :
                    /\ \A k \in S : tp_triggered(p, candle, p.tp[k].price)
                    /\ q.tp = DropAt(p.tp, S)
                    /\ firedTp = Cardinality(S)
              /\ \E S \in SUBSET DOMAIN p.sl :
                    /\ \A k \in S : sl_triggered(p, candle, p.sl[k].price)
                    /\ q.sl = DropAt(p.sl, S)
                    /\ firedSl = Cardinality(S)
              /\ ~RLt(Zero, p.qty) => firedTp = 0 /\ firedSl = 0
              /\ firedTp + firedSl = fills ]_vars

\* C30: every increment of exit_wins or exit_losses goes with one exit fill
\* applied to an open Position, so exit_wins + exit_losses never exceeds the
\* number of close_partial and close_full events recorded.
C30_ExitsAreFills ==
    bt.stats.exit_wins + bt.stats.exit_losses
        <= EventCount("close_partial") + EventCount("close_full")

\* C31: after every update that returned, stats.positions is the number of
\* Positions that have been fully closed so far (an open Position is not
\* counted), and position_winrate is position_wins over that number.
\* Stated for the runs in which no Position has a negative quantity.
C31_PositionsCountsClosed ==
    (/\ op.name = "update" /\ op.raised = "none"
     /\ \A i \in DOMAIN pm.positions : RLe(Zero, pm.positions[i].qty)) =>
        /\ bt.stats.positions = Len(Closed)
        /\ bt.stats.position_winrate =
               IF Len(Closed) > 0
               THEN Rat(bt.stats.position_wins, Len(Closed)) ELSE Zero

\* sum of the quantities of a list of orders
RECURSIVE SumQty(_)
SumQty(os) ==
    IF os = <<>> THEN Zero ELSE RAdd(os[1].quantity, SumQty(Tail(os)))

\* qty is what was entered minus what the exit fills closed
Conserved(p) == p.qty = RSub(SumQty(p.entry_orders), SumQty(p.exit_orders))

\* C32: in every reachable state the qty of every Position is the sum of
\* the quantities of its entry fills minus the sum of the quantities closed
\* by its exit fills, and the quantity closed never exceeds the quantity
\* entered.
C32_QuantityConserved ==
    \A i \in DOMAIN pm.positions :
        /\ Conserved(pm.positions[i])
        /\ RLe(SumQty(pm.positions[i].exit_orders),
               SumQty(pm.positions[i].entry_orders))

C34_UpdateCompletes ==
    op.name = "update" =>
        /\ op.raised = "none"
        /\ Len(bt.stats.equity_curve) = bars
        /\ bt.stats.positions = pm.position_count
        /\ bt.stats.longs = pm.total_longs
        /\ bt.stats.shorts = pm.total_shorts
        /\ bt.stats.fees_paid = pm.total_fees

\* the Position the step's entry fill is applied to: the open one, or the
\* new Position a long() / short() creates when none is open
FillTarget == IF pm.position # 0 THEN Pos(pm) ELSE Position("LONG", <<>>, <<>>)

\* sum of price * quantity over a list of orders
RECURSIVE SumCost(_)
SumCost(os) ==
    IF os = <<>> THEN Zero
    ELSE RAdd(RMul(os[1].price, os[1].quantity), SumCost(Tail(os)))

\* C35: a long() / short() that applies an entry fill of quantity f at
\* price x to a Position with quantity q and average price a leaves
\* quantity q + f and an average price whose product with q + f is
\* a*q + x*f (the weighted average (a*q + x*f) / (q + f)); and while the
\* Position has no exit fill, avg_price * qty is the sum of price * quantity
\* over its entry fills.
C35_WeightedAverage ==
    [][ (/\ op'.name \in {"long", "short"}
         /\ pm'.position # 0
         /\ Len(Pos(pm').entry_orders) = Len(FillTarget.entry_orders) + 1) =>
          LET p == FillTarget
              q == Pos(pm')
              o == q.entry_orders[Len(q.entry_orders)]
          IN  /\ q.qty = RAdd(p.qty, o.quantity)
              /\ RMul(q.avg_price, q.qty) =
                     RAdd(RMul(p.avg_price, p.qty),
                          RMul(o.price, o.quantity))
              /\ q.exit_orders = <<>> =>
                     RMul(q.avg_price, q.qty) = SumCost(q.entry_orders) ]_vars

\* C36: after every update that returned on a run in which a Position has
\* been opened, avg_position_duration equals exposure_time / positions,
\* with both counters as this update leaves them.
C36_AvgPositionDuration ==
    (op.name = "update" /\ op.raised = "none" /\ bt.stats.positions > 0) =>
        bt.stats.avg_position_duration
            = RDiv(bt.stats.exposure_time, R(bt.stats.positions))

\* both stop events of the strategy are set
Stopped == stop.print_stop_event /\ stop.plot_stop_event

\* C37: on a finite stream run() eventually calls on_stream_end on the
\* subscriber, which sets the print and the plot stop events; the call is
\* made only when the update of the last bar delivered has ended (returned
\* or raised), it sets both events in one step, and they stay set.
C37_StreamEndReached ==
    /\ <>(phase = "ended" /\ Stopped)
    /\ [][ /\ stop' # stop =>
                 /\ op'.name = "on_stream_end"
                 /\ phase = "idle"
                 /\ op.name \in {"init", "update"}
                 /\ Stopped'
           /\ op'.name = "on_stream_end" => Stopped'
           /\ Stopped => Stopped' ]_vars

\* the stream has ended after two bars, and the update of one of them
\* raised (it appended no equity sample)
C37_Witness ==
    /\ phase = "ended"
    /\ Stopped
    /\ bars = 2
    /\ Len(bt.stats.equity_curve) < bars

====
